---- MODULE Spec2Model ----
(***************************************************************************)
(* Model of actus_navigator.client: the listing parser parse_articles and  *)
(* its three strategies (container/card, structured data, link fallback), *)
(* and of html_export.collect_articles, which gathers the pages.           *)
(*                                                                         *)
(* A document is the parsed tree: a sequence of element nodes in document  *)
(* order (preorder), each with the index of its parent (0 is the           *)
(* BeautifulSoup object itself).  Text is a sequence of tokens, one token  *)
(* per character, except that a literal character reference left in the   *)
(* text ("&amp;", "&#1;") is one token.                                    *)
(***************************************************************************)
EXTENDS Integers, Sequences, FiniteSets, TLC

VARIABLES html, pc, articles, ran, outcome, log,
          pages, page_size, index, page_articles, collected_urls, fetched

\* the variables of html_export.collect_articles that parse_articles has not
cvars == <<pages, page_size, index, page_articles, collected_urls, fetched>>

vars == <<html, pc, articles, ran, outcome, log,
          pages, page_size, index, page_articles, collected_urls, fetched>>

---------------------------------------------------------------------------
(* Sequences                                                               *)

RECURSIVE Flatten(_)
Flatten(ss) == IF ss = <<>> THEN <<>> ELSE Head(ss) \o Flatten(Tail(ss))

RECURSIVE SortedSeq(_)
SortedSeq(S) ==
  IF S = {} THEN <<>>
  ELSE LET m == CHOOSE x \in S : \A y \in S : x <= y
       IN <<m>> \o SortedSeq(S \ {m})

Range(s) == {s[i] : i \in 1..Len(s)}

---------------------------------------------------------------------------
(* Text: str.strip, html.unescape, len                                     *)

RECURSIVE LStrip(_)
LStrip(t) == IF t = <<>> THEN <<>>
             ELSE IF Head(t) = " " THEN LStrip(Tail(t)) ELSE t

RECURSIVE RStrip(_)
RStrip(t) == IF t = <<>> THEN <<>>
             ELSE IF t[Len(t)] = " " THEN RStrip(SubSeq(t, 1, Len(t) - 1)) ELSE t

Strip(t) == RStrip(LStrip(t))

\* html.unescape: a named reference is replaced by its character, a numeric
\* reference to an invalid code point by nothing.
RECURSIVE Unescape(_)
Unescape(t) ==
  IF t = <<>> THEN <<>>
  ELSE LET h == Head(t)
       IN (IF h = "&amp;" THEN <<"&">> ELSE IF h = "&#1;" THEN <<>> ELSE <<h>>)
          \o Unescape(Tail(t))

RECURSIVE StrLen(_)
StrLen(t) ==
  IF t = <<>> THEN 0
  ELSE (IF Head(t) = "&amp;" THEN 5 ELSE IF Head(t) = "&#1;" THEN 4 ELSE 1)
       + StrLen(Tail(t))

---------------------------------------------------------------------------
(* href strings and urljoin                                                *)
(* An href is kept in parsed form: surrounding whitespace (pad), scheme,   *)
(* network location, whether the path starts with "/", path segments.     *)

NoHref == [present |-> FALSE, pad |-> FALSE, scheme |-> "", netloc |-> "",
           rooted |-> FALSE, segs |-> <<>>]

EmptyHref == [NoHref EXCEPT !.present = TRUE]

Rel(segs) == [EmptyHref EXCEPT !.segs = segs]

Rooted(segs) == [EmptyHref EXCEPT !.rooted = TRUE, !.segs = segs]

Abs(scheme, netloc, segs) ==
  [EmptyHref EXCEPT !.scheme = scheme, !.netloc = netloc, !.rooted = TRUE,
                    !.segs = segs]

Padded(h) == [h EXCEPT !.pad = TRUE]

\* bool(href): a string is falsy only when it has no character at all
HrefTruthy(h) ==
  h.present /\ (h.pad \/ h.scheme # "" \/ h.netloc # "" \/ h.rooted \/ h.segs # <<>>)

HrefStrip(h) == [h EXCEPT !.pad = FALSE]

BASE_URL == [scheme |-> "https", netloc |-> "actus.ulb.be", segs |-> <<>>]

\* urllib.parse.urljoin(BASE_URL, h) for an h without whitespace around it
Urljoin(base, h) ==
  IF ~HrefTruthy(h) THEN base
  ELSE IF h.scheme # "" /\ h.scheme # base.scheme
       THEN [scheme |-> h.scheme, netloc |-> h.netloc, segs |-> h.segs]
  ELSE IF h.netloc # ""
       THEN [scheme |-> base.scheme, netloc |-> h.netloc, segs |-> h.segs]
  ELSE IF h.rooted
       THEN [scheme |-> base.scheme, netloc |-> base.netloc, segs |-> h.segs]
  ELSE [scheme |-> base.scheme, netloc |-> base.netloc,
        segs |-> (IF base.segs = <<>> THEN <<>>
                  ELSE SubSeq(base.segs, 1, Len(base.segs) - 1)) \o h.segs]

\* the pieces of the written href that come right after a "/", each with
\* whether a "/" follows it
SlashPieces(h) ==
  (IF h.netloc # "" THEN {[piece |-> h.netloc, slashAfter |-> h.segs # <<>>]}
   ELSE {})
  \cup {[piece |-> h.segs[i], slashAfter |-> i < Len(h.segs)] :
          i \in {j \in 1..Len(h.segs) : j > 1 \/ h.rooted \/ h.netloc # ""}}

\* the path words each piece starts with
StartsWith(piece, word) ==
  CASE word = "actus" -> piece \in {"actus", "actus.ulb.be"}
    [] word = "actualite" -> piece \in {"actualite", "actualites"}
    [] OTHER -> piece = word

\* frag in href, for a fragment "/word" or "/word/"
HrefContains(h, frag) ==
  h.present /\
  \E p \in SlashPieces(h) :
    IF frag.slashAfter THEN p.piece = frag.word /\ p.slashAfter
    ELSE StartsWith(p.piece, frag.word)

Frag(word) == [word |-> word, slashAfter |-> FALSE]

FragDir(word) == [word |-> word, slashAfter |-> TRUE]

AnyFrag == [word |-> "", slashAfter |-> FALSE]

---------------------------------------------------------------------------
(* The parsed tree and the CSS queries of BeautifulSoup / soupsieve        *)

Soup == 0       \* the BeautifulSoup object, parent of the top-level nodes

None == -1      \* no node

NoContent == [kind |-> "none", data |-> [t |-> "null"]]

Elem(parent, tag, cls, text, href) ==
  [parent |-> parent, tag |-> tag, cls |-> cls, text |-> text, href |-> href,
   stype |-> "", content |-> NoContent]

ScriptElem(parent, stype, content) ==
  [parent |-> parent, tag |-> "script", cls |-> {}, text |-> <<>>,
   href |-> NoHref, stype |-> stype, content |-> content]

\* node.parent; the BeautifulSoup object has none
Parent(doc, n) == IF n = Soup THEN None ELSE doc[n].parent

RECURSIVE Ancestors(_, _)
Ancestors(doc, n) ==
  IF n = Soup \/ doc[n].parent = Soup THEN {}
  ELSE {doc[n].parent} \cup Ancestors(doc, doc[n].parent)

\* the k-th ancestor of a node, None once the root is passed
RECURSIVE Up(_, _, _)
Up(doc, n, k) ==
  IF k = 0 \/ n = None THEN n ELSE Up(doc, Parent(doc, n), k - 1)

\* is element n below the node scope
RECURSIVE IsBelow(_, _, _)
IsBelow(doc, n, scope) ==
  IF n = Soup THEN FALSE
  ELSE doc[n].parent = scope \/ IsBelow(doc, doc[n].parent, scope)

\* the elements of the document, in document order
Elements(doc) == [i \in 1..Len(doc) |-> i]

\* the elements below a node, in document order
Descendants(doc, scope) ==
  SelectSeq(Elements(doc), LAMBDA n : IsBelow(doc, n, scope))

\* a compound selector: tag name, classes, one condition on href
Compound(tag, cls) == [tag |-> tag, cls |-> cls, attr |-> "none", frag |-> AnyFrag]

HasHref(tag) == [tag |-> tag, cls |-> {}, attr |-> "has", frag |-> AnyFrag]

HrefHas(tag, frag) == [tag |-> tag, cls |-> {}, attr |-> "contains", frag |-> frag]

CompoundMatches(node, c) ==
  /\ c.tag = "" \/ node.tag = c.tag
  /\ c.cls \subseteq node.cls
  /\ CASE c.attr = "none" -> TRUE
       [] c.attr = "has" -> node.href.present
       [] OTHER -> HrefContains(node.href, c.frag)

\* a selector is a sequence of compounds joined by the descendant combinator
RECURSIVE MatchesUpTo(_, _, _, _)
MatchesUpTo(doc, n, sel, k) ==
  /\ CompoundMatches(doc[n], sel[k])
  /\ k = 1 \/ \E a \in Ancestors(doc, n) : MatchesUpTo(doc, a, sel, k - 1)

Matches(doc, n, sel) == MatchesUpTo(doc, n, sel, Len(sel))

\* the elements among `below` that a selector matches
SelectIn(doc, below, sel) == SelectSeq(below, LAMBDA n : Matches(doc, n, sel))

\* tag.select(selector)
Select(doc, scope, sel) == SelectIn(doc, Descendants(doc, scope), sel)

\* tag.select("s1, s2, ..."): the elements matching any of them, document order
SelectAny(doc, scope, sels) ==
  SelectSeq(Descendants(doc, scope),
            LAMBDA n : \E i \in 1..Len(sels) : Matches(doc, n, sels[i]))

First(s) == IF s = <<>> THEN None ELSE s[1]

\* tag.select_one(selector)
SelectOne(doc, scope, sel) == First(Select(doc, scope, sel))

\* the strings of a node and of the elements below it, document order
Strings(doc, n) ==
  LET nodes == SelectSeq(Elements(doc), LAMBDA m : m = n \/ IsBelow(doc, m, n))
  IN [i \in 1..Len(nodes) |-> doc[nodes[i]].text]

RECURSIVE JoinStripped(_, _)
JoinStripped(pieces, sep) ==
  IF pieces = <<>> THEN <<>>
  ELSE LET h == Strip(Head(pieces))
           rest == JoinStripped(Tail(pieces), sep)
       IN IF h = <<>> THEN rest
          ELSE IF rest = <<>> THEN h
          ELSE h \o sep \o rest

\* tag.get_text(separator, strip=True)
GetText(doc, n, sep) == JoinStripped(Strings(doc, n), sep)

---------------------------------------------------------------------------
(* Article and the field extractors                                        *)

NoDate == [some |-> FALSE, text |-> <<>>]

SomeDate(t) == [some |-> TRUE, text |-> t]

Article(title, url, summary, date) ==
  [title |-> title, url |-> url, summary |-> summary, date |-> date]

SP == <<" ">>   \* the separator of get_text(" ", strip=True)

summary_selectors ==
  << <<Compound("div", {"field--name-field-introduction"})>>,
     <<Compound("", {"card__summary"})>>,
     <<Compound("", {"node__teaser"})>>,
     <<Compound("", {"views-field-field-introduction"})>>,
     <<Compound("", {"field--name-field-introduction"})>>,
     <<Compound("", {"c-card__summary"})>>,
     <<Compound("", {"article-card__excerpt"})>>,
     <<Compound("div", {"resume"})>>,
     <<Compound("", {"media__content"})>>,
     <<Compound("p", {})>> >>

date_selectors ==
  << <<Compound("time", {})>>,
     <<Compound("span", {"date"})>>,
     <<Compound("", {"card__date"})>>,
     <<Compound("", {"news-card__date"})>>,
     <<Compound("", {"c-card__date"})>>,
     <<Compound("", {"article-card__date"})>>,
     <<Compound("", {"date-display-single"})>>,
     <<Compound("", {"date"})>>,
     <<Compound("span", {"date--debut"})>> >>

MaxWalkDepth == 5

\* one pass of "for selector in summary_selectors" on the current node: the
\* indexes of the selectors whose first match gives a usable summary
SummaryHits(doc, current, exclude) ==
  LET below == Descendants(doc, current)
  IN
  {i \in 1..Len(summary_selectors) :
     LET tag == First(SelectIn(doc, below, summary_selectors[i]))
     IN /\ tag # None
        /\ LET summary == GetText(doc, tag, SP)
           IN summary # <<>> /\ (exclude = <<>> \/ summary # exclude)}

\* the depth test left out: the walk goes on up to the root
RECURSIVE SummaryWalk_Unbounded(_, _, _, _)
SummaryWalk_Unbounded(doc, current, depth, exclude) ==
  IF current = None THEN <<>>
  ELSE LET hits == SummaryHits(doc, current, exclude)
       IN IF hits # {}
          THEN LET i == CHOOSE j \in hits : \A k \in hits : j <= k
               IN GetText(doc, SelectOne(doc, current, summary_selectors[i]), SP)
          ELSE SummaryWalk_Unbounded(doc, Parent(doc, current), depth + 1, exclude)

RECURSIVE SummaryWalk(_, _, _, _)
SummaryWalk(doc, current, depth, exclude) ==
  IF current = None \/ depth > MaxWalkDepth THEN <<>>
  ELSE LET hits == SummaryHits(doc, current, exclude)
       IN IF hits # {}
          THEN LET i == CHOOSE j \in hits : \A k \in hits : j <= k
               IN GetText(doc, SelectOne(doc, current, summary_selectors[i]), SP)
          ELSE SummaryWalk(doc, Parent(doc, current), depth + 1, exclude)

\* _extract_summary(node, exclude_text=exclude)
ExtractSummary(doc, node, exclude) == SummaryWalk(doc, node, 0, exclude)

DateHits(doc, current) ==
  LET below == Descendants(doc, current)
  IN
  {i \in 1..Len(date_selectors) :
     LET tag == First(SelectIn(doc, below, date_selectors[i]))
     IN tag # None /\ GetText(doc, tag, <<>>) # <<>>}

\* the loops exchanged: each selector is tried on every level in turn
DateWalk_SelectorFirst(doc, current, depth) ==
  LET hits == {h \in (1..Len(date_selectors)) \X (depth..MaxWalkDepth) :
                 /\ Up(doc, current, h[2] - depth) # None
                 /\ h[1] \in DateHits(doc, Up(doc, current, h[2] - depth))}
  IN IF hits = {} THEN NoDate
     ELSE LET h == CHOOSE x \in hits :
                     \A y \in hits : x[1] < y[1] \/ (x[1] = y[1] /\ x[2] <= y[2])
          IN SomeDate(GetText(doc, SelectOne(doc, Up(doc, current, h[2] - depth),
                                             date_selectors[h[1]]), <<>>))

RECURSIVE DateWalk(_, _, _)
DateWalk(doc, current, depth) ==
  IF current = None \/ depth > MaxWalkDepth THEN NoDate
  ELSE LET hits == DateHits(doc, current)
       IN IF hits # {}
          THEN LET i == CHOOSE j \in hits : \A k \in hits : j <= k
               IN SomeDate(GetText(doc, SelectOne(doc, current, date_selectors[i]), <<>>))
          ELSE DateWalk(doc, Parent(doc, current), depth + 1)

\* _extract_date(node)
ExtractDate(doc, node) == DateWalk(doc, node, 0)

---------------------------------------------------------------------------
(* Container/card strategy                                                 *)

container_selectors ==
  << <<Compound("div", {"view-content"})>>,
     <<Compound("div", {"layout__region"})>>,
     <<Compound("div", {"region-content"})>>,
     <<Compound("main", {})>> >>

card_selectors ==
  << <<Compound("article", {})>>,
     <<Compound("div", {"views-row"})>>,
     <<Compound("div", {"node--type-actualite"})>>,
     <<Compound("div", {"card"})>>,
     <<Compound("div", {"news-card"})>>,
     <<Compound("div", {"article-card"})>>,
     <<Compound("div", {"c-card"})>>,
     <<Compound("div", {"media"})>>,
     <<Compound("ul", {"objets", "actualites"}), Compound("li", {})>>,
     <<Compound("li", {"avec_vignette"})>>,
     <<Compound("li", {"views-row"})>>,
     <<Compound("li", {"card"})>>,
     <<Compound("li", {"search-result__item"})>> >>

title_selectors ==
  << <<Compound("h2", {}), Compound("a", {})>>,
     <<Compound("h3", {}), Compound("a", {})>>,
     <<Compound("", {"card__title"}), Compound("a", {})>>,
     <<Compound("", {"node__title"}), Compound("a", {})>> >>

\* keeps the first occurrence of each element of a sequence
RECURSIVE Unique(_, _)
Unique(s, seen) ==
  IF s = <<>> THEN <<>>
  ELSE IF Head(s) \in seen THEN Unique(Tail(s), seen)
  ELSE <<Head(s)>> \o Unique(Tail(s), seen \cup {Head(s)})

\* one query for all the selectors: the cards in document order
IterArticleNodes_DocumentOrder(doc, container) ==
  SelectAny(doc, container, card_selectors)

\* _iter_article_nodes(container): selector by selector, each node once
IterArticleNodes(doc, container) ==
  Unique(Flatten([i \in 1..Len(card_selectors) |->
                    Select(doc, container, card_selectors[i])]), {})

\* an unstable choice: the last element of the largest key
RECURSIVE LongestFirst_LastOfEqual(_, _, _)
LongestFirst_LastOfEqual(doc, links, best) ==
  IF links = <<>> THEN best
  ELSE LongestFirst_LastOfEqual(doc, Tail(links),
         IF best = None
            \/ StrLen(GetText(doc, Head(links), <<>>)) >= StrLen(GetText(doc, best, <<>>))
         THEN Head(links) ELSE best)

\* list.sort(key, reverse=True)[0]: the first element of the largest key
RECURSIVE LongestFirst(_, _, _)
LongestFirst(doc, links, best) ==
  IF links = <<>> THEN best
  ELSE LongestFirst(doc, Tail(links),
         IF best = None
            \/ StrLen(GetText(doc, Head(links), <<>>)) > StrLen(GetText(doc, best, <<>>))
         THEN Head(links) ELSE best)

\* _select_title_link(node)
SelectTitleLink(doc, node) ==
  LET candidate_links ==
        SelectSeq(Select(doc, node, <<HasHref("a")>>),
                  LAMBDA l : /\ HrefTruthy(doc[l].href)
                             /\ \/ HrefContains(doc[l].href, FragDir("actus"))
                                \/ HrefContains(doc[l].href, FragDir("actualites")))
  IN LongestFirst(doc, candidate_links, None)

\* title_tag.get("href", "")
GetHref(doc, tag) == IF doc[tag].href.present THEN doc[tag].href ELSE EmptyHref

\* the title anchor _parse_article_card settles on, or None
CardTitleTag(doc, node) ==
  LET tight == First(SelectAny(doc, node, title_selectors))
  IN IF tight # None THEN tight ELSE SelectTitleLink(doc, node)

\* _parse_article_card(node): <<>> for None, else <<article>>
ParseArticleCard(doc, node) ==
  LET title_tag == CardTitleTag(doc, node)
  IN IF title_tag = None \/ GetText(doc, title_tag, <<>>) = <<>> THEN <<>>
     ELSE LET url == Urljoin(BASE_URL, HrefStrip(GetHref(doc, title_tag)))
              title == Unescape(GetText(doc, title_tag, <<>>))
          IN <<Article(title, url, ExtractSummary(doc, node, title),
                       ExtractDate(doc, node))>>

\* seen_urls kept at module level: the urls of the earlier calls stay in it
NewSeenUrls_Kept ==
  UNION {{log[i].result[j].url : j \in 1..Len(log[i].result)} : i \in 1..Len(log)}

\* "seen_urls: set[str] = set()": every strategy starts from no url
NewSeenUrls == {}

\* the url test left out
DedupByUrl_Off(candidates, acc, seen_urls) == acc \o candidates

\* "if article and article.url not in seen_urls: append": over candidates
RECURSIVE DedupByUrl(_, _, _)
DedupByUrl(candidates, acc, seen_urls) ==
  IF candidates = <<>> THEN acc
  ELSE LET a == Head(candidates)
       IN IF a.url \in seen_urls THEN DedupByUrl(Tail(candidates), acc, seen_urls)
          ELSE DedupByUrl(Tail(candidates), Append(acc, a), seen_urls \cup {a.url})

\* one query for all the selectors: the containers in document order
Containers_DocumentOrder(doc) ==
  LET found == SelectAny(doc, Soup, container_selectors)
  IN IF found = <<>> THEN <<Soup>> ELSE found

\* the whole document searched after the containers, whatever they are
Containers_ThenSoup(doc) ==
  Flatten([i \in 1..Len(container_selectors) |->
             Select(doc, Soup, container_selectors[i])]) \o <<Soup>>

\* the containers of the document: every match of every selector, or the soup
Containers(doc) ==
  LET found == Flatten([i \in 1..Len(container_selectors) |->
                          Select(doc, Soup, container_selectors[i])])
  IN IF found = <<>> THEN <<Soup>> ELSE found

\* the cards of one container that parse, in the order they are visited
ContainerCandidates(doc, container) ==
  LET nodes == IterArticleNodes(doc, container)
  IN Flatten([i \in 1..Len(nodes) |-> ParseArticleCard(doc, nodes[i])])

\* the articles of one container
ContainerArticles(doc, container) ==
  DedupByUrl(ContainerCandidates(doc, container), <<>>, NewSeenUrls)

\* the break left out: the articles of all the containers
FirstYield_NoBreak(doc, containers) ==
  DedupByUrl(Flatten([i \in 1..Len(containers) |->
                        ContainerCandidates(doc, containers[i])]), <<>>, NewSeenUrls)

\* "for container in containers: ...; if articles: break"
RECURSIVE FirstYield(_, _)
FirstYield(doc, containers) ==
  IF containers = <<>> THEN <<>>
  ELSE LET got == ContainerArticles(doc, Head(containers))
       IN IF got # <<>> THEN got ELSE FirstYield(doc, Tail(containers))

\* _parse_from_containers(soup)
ParseFromContainers(doc) == FirstYield(doc, Containers(doc))

---------------------------------------------------------------------------
(* Link-fallback strategy                                                  *)

link_selectors ==
  << <<HrefHas("a", Frag("toutes-les-actus"))>>,
     <<HrefHas("a", Frag("actualites"))>>,
     <<HrefHas("a", Frag("actualite"))>>,
     <<HrefHas("a", Frag("actus"))>>,
     <<HrefHas("a", Frag("news"))>>,
     <<HrefHas("a", Frag("agenda"))>> >>

\* "link.parent or link": the node the field extractors start from
LinkContext(doc, link) == Parent(doc, link)

\* _parse_article_from_link(link): <<>> for None, else <<article>>
ParseArticleFromLink(doc, link) ==
  LET text == GetText(doc, link, <<>>)
      href == doc[link].href
  IN IF text = <<>> \/ ~HrefTruthy(href) THEN <<>>
     ELSE <<Article(Unescape(text), Urljoin(BASE_URL, HrefStrip(href)),
                    ExtractSummary(doc, LinkContext(doc, link), text),
                    ExtractDate(doc, LinkContext(doc, link)))>>

\* the anchors _parse_from_links looks at
LinkNodes(doc) == SelectAny(doc, Soup, link_selectors)

\* the anchors that parse, in document order
LinkCandidates(doc) ==
  LET candidates == LinkNodes(doc)
  IN Flatten([i \in 1..Len(candidates) |-> ParseArticleFromLink(doc, candidates[i])])

\* _parse_from_links(soup)
ParseFromLinks(doc) == DedupByUrl(LinkCandidates(doc), <<>>, NewSeenUrls)

---------------------------------------------------------------------------
(* Structured-data strategy                                                *)
(* A JSON value is an object (members in order), a list, a string or       *)
(* something else.  A string is written as text, as an href (the strings   *)
(* under "url" and "@id") or as a type name (the strings under "@type").   *)

JNull == [t |-> "null"]

JObj(members) == [t |-> "obj", members |-> members]

JList(items) == [t |-> "list", items |-> items]

JText(v) == [t |-> "str", form |-> "text", v |-> v]

JUrl(h) == [t |-> "str", form |-> "url", v |-> h]

JName(n) == [t |-> "str", form |-> "name", v |-> n]

Member(key, val) == [key |-> key, val |-> val]

\* dict.get(key)
JGet(d, key) ==
  LET at == {i \in 1..Len(d.members) : d.members[i].key = key}
  IN IF at = {} THEN JNull ELSE d.members[CHOOSE i \in at : TRUE].val

\* bool(value)
Truthy(v) ==
  CASE v.t = "str" ->
         (CASE v.form = "text" -> v.v # <<>>
            [] v.form = "url" -> HrefTruthy(v.v)
            [] OTHER -> v.v # "")
    [] v.t = "obj" -> v.members # <<>>
    [] v.t = "list" -> v.items # <<>>
    [] OTHER -> FALSE

\* a or b
Or(a, b) == IF Truthy(a) THEN a ELSE b

\* str.lower on a type name
Lower(n) ==
  CASE n = "NewsArticle" -> "newsarticle"
    [] n = "Article" -> "article"
    [] n = "CreativeWork" -> "creativework"
    [] n = "ListItem" -> "listitem"
    [] n = "Person" -> "person"
    [] OTHER -> n

\* one more type let in
allowed_types_AndPerson == {"newsarticle", "article", "creativework", "listitem", "person"}

allowed_types == {"newsarticle", "article", "creativework", "listitem"}

\* _iter_json_nodes(data): every object, parents before children
RECURSIVE IterJsonNodes(_)
IterJsonNodes(data) ==
  IF data.t = "obj"
  THEN <<data>> \o Flatten([i \in 1..Len(data.members) |->
                              IterJsonNodes(data.members[i].val)])
  ELSE IF data.t = "list"
  THEN Flatten([i \in 1..Len(data.items) |-> IterJsonNodes(data.items[i])])
  ELSE <<>>

\* the set "types" of _article_from_json
DeclaredTypes(data) ==
  LET type_hint == Or(JGet(data, "@type"), JGet(data, "type"))
  IN IF type_hint.t = "list"
     THEN {Lower(type_hint.items[i].v) :
             i \in {j \in 1..Len(type_hint.items) : type_hint.items[j].t = "str"}}
     ELSE IF type_hint.t = "str" THEN {Lower(type_hint.v)}
     ELSE {}

IsUrlString(v) == v.t = "str" /\ v.form = "url"

IsTextString(v) == v.t = "str" /\ v.form = "text"

\* _article_from_json(data) for an object: <<>> for None, else <<article>>
ArticleFromJson(data) ==
  LET types == DeclaredTypes(data)
      url == Or(JGet(data, "url"), JGet(data, "@id"))
      title == Or(Or(Or(JGet(data, "headline"), JGet(data, "name")),
                     JGet(data, "title")), JGet(data, "text"))
      described == Or(Or(JGet(data, "description"), JGet(data, "abstract")), JText(<<>>))
      summary == IF IsTextString(described) THEN described.v ELSE <<>>
      dated == Or(Or(JGet(data, "datePublished"), JGet(data, "dateCreated")),
                  JGet(data, "dateModified"))
      date == IF IsTextString(dated) /\ Truthy(dated)
              THEN SomeDate(Strip(dated.v)) ELSE NoDate
  IN IF types # {} /\ types \cap allowed_types = {} THEN <<>>
     ELSE IF ~IsUrlString(url) \/ ~HrefTruthy(HrefStrip(url.v)) THEN <<>>
     ELSE IF ~IsTextString(title) \/ Strip(title.v) = <<>> THEN <<>>
     ELSE <<Article(Unescape(Strip(title.v)), Urljoin(BASE_URL, HrefStrip(url.v)),
                    Unescape(Strip(summary)), date)>>

\* only one of the two types looked for
script_types_JsonOnly == {"application/json"}

script_types == {"application/ld+json", "application/json"}

\* the payloads of one script element: none for an empty or unparseable text
ScriptPayloads(script) ==
  IF script.content.kind # "json" THEN <<>>
  ELSE IterJsonNodes(script.content.data)

\* soup.find_all("script", attrs={"type": [...]})
ScriptNodes(doc) ==
  SelectSeq(Descendants(doc, Soup),
            LAMBDA n : doc[n].tag = "script" /\ doc[n].stype \in script_types)

\* "break" for "continue": the blocks after an unreadable one are left out
StructuredCandidates_BreakAtUnreadable(doc) ==
  LET scripts == ScriptNodes(doc)
      readable == {i \in 1..Len(scripts) :
                     \A j \in 1..i : doc[scripts[j]].content.kind = "json"}
      payloads == Flatten([i \in 1..Len(scripts) |->
                             IF i \in readable THEN ScriptPayloads(doc[scripts[i]])
                             ELSE <<>>])
  IN Flatten([i \in 1..Len(payloads) |-> ArticleFromJson(payloads[i])])

\* the objects that give an article, block by block
StructuredCandidates(doc) ==
  LET scripts == ScriptNodes(doc)
      payloads == Flatten([i \in 1..Len(scripts) |-> ScriptPayloads(doc[scripts[i]])])
  IN Flatten([i \in 1..Len(payloads) |-> ArticleFromJson(payloads[i])])

\* _parse_from_structured_data(soup)
ParseFromStructuredData(doc) == DedupByUrl(StructuredCandidates(doc), <<>>, NewSeenUrls)

---------------------------------------------------------------------------
(* The documents parse_articles is called on                               *)
(* A document is an optional container element holding a few listing      *)
(* entries, followed by at most one script element.  An entry is a small   *)
(* subtree; its nodes name their parent inside the entry, 0 being the      *)
(* place the entry is attached to.                                         *)

MaxEntries == 2

MaxCalls == 3

A1 == Rooted(<<"fr", "actus", "a1">>)

\* a card with an h2 title, a summary and a date
PlainCard ==
  << Elem(0, "article", {}, <<>>, NoHref),
     Elem(1, "h2", {}, <<>>, NoHref),
     Elem(2, "a", {}, <<"a", "b">>, A1),
     Elem(1, "p", {}, <<"c", " ", "d">>, NoHref),
     Elem(1, "time", {}, <<"t">>, NoHref) >>

CardEntries ==
  { PlainCard,
    \* a card of a later card selector, whose only paragraph repeats the title
    << Elem(0, "div", {"card"}, <<>>, NoHref),
       Elem(1, "h3", {}, <<>>, NoHref),
       Elem(2, "a", {}, <<"e">>, Rooted(<<"fr", "actualites", "a2">>)),
       Elem(1, "p", {}, <<" ", "e">>, NoHref) >>,
    \* a card whose title anchor is written otherwise but resolves to A1
    << Elem(0, "article", {}, <<>>, NoHref),
       Elem(1, "h3", {}, <<>>, NoHref),
       Elem(2, "a", {}, <<"g">>, Padded(Rel(<<"fr", "actus", "a1">>))),
       Elem(1, "div", {"card__summary"}, <<"h">>, NoHref) >>,
    \* a card whose title anchor has no href
    << Elem(0, "article", {}, <<>>, NoHref),
       Elem(1, "h2", {}, <<>>, NoHref),
       Elem(2, "a", {}, <<"i">>, NoHref) >>,
    \* a card whose title anchor has no text
    << Elem(0, "article", {}, <<>>, NoHref),
       Elem(1, "h2", {}, <<>>, NoHref),
       Elem(2, "a", {}, <<" ">>, Rooted(<<"fr", "actus", "a3">>)),
       Elem(1, "p", {}, <<"j">>, NoHref) >>,
    \* a card whose title is a reference to an invalid code point, on another site
    << Elem(0, "li", {"card"}, <<>>, NoHref),
       Elem(1, "a", {}, <<"&#1;">>, Abs("http", "other.org", <<"actus", "a4">>)),
       Elem(1, "a", {}, <<>>, Rooted(<<"actus", "a4">>)) >> }

\* a list item with one news anchor, whose text holds a literal reference, a
\* date and a summary
LinkItem ==
  << Elem(0, "li", {}, <<>>, NoHref),
     Elem(1, "a", {}, <<"k", "&amp;">>, Rooted(<<"fr", "news", "a5">>)),
     Elem(1, "span", {"c-card__date"}, <<"u">>, NoHref),
     Elem(1, "p", {}, <<"k", "&">>, NoHref) >>

LinkEntries ==
  { LinkItem,
    \* an anchor and its summary put side by side under the common parent
    << Elem(0, "a", {}, <<"m">>, Rooted(<<"fr", "agenda", "a6">>)),
       Elem(0, "p", {}, <<"n">>, NoHref) >>,
    \* a list item with an anchor and nothing else, written with the site's origin
    << Elem(0, "li", {}, <<>>, NoHref),
       Elem(1, "a", {}, <<"q">>, Abs("https", "actus.ulb.be", <<"fr", "news", "a5">>)) >> }

Entries == CardEntries \cup LinkEntries

LdJson(data) == ScriptElem(Soup, "application/ld+json", [kind |-> "json", data |-> data])

\* the NewsArticle block of the test suite
NewsScript ==
  LdJson(JObj(<< Member("@type", JName("NewsArticle")),
                 Member("headline", JText(<<"a", "b">>)),
                 Member("url", JUrl(Rooted(<<"fr", "actualites", "s1">>))),
                 Member("description", JText(<<"c", " ", "d">>)),
                 Member("datePublished", JText(<<"t">>)) >>))

Scripts ==
  { NewsScript,
    \* an untyped object whose description repeats its name
    LdJson(JObj(<< Member("name", JText(<<"r">>)),
                   Member("@id", JUrl(A1)),
                   Member("description", JText(<<"r">>)) >>)),
    \* a list of objects: two of one url, the second nested in the first; one
    \* with a blank url, one with a blank title; a Person; one whose headline
    \* is a reference to an invalid code point; an article
    LdJson(JList(<< JObj(<< Member("type", JList(<<JName("Person"), JName("ListItem")>>)),
                            Member("title", JText(<<"s">>)),
                            Member("url", JUrl(Padded(Rel(<<"fr", "s2">>)))),
                            Member("item",
                                   JObj(<< Member("text", JText(<<"v">>)),
                                           Member("url", JUrl(Rooted(<<"fr", "s2">>))) >>)) >>),
                    JObj(<< Member("headline", JText(<<"x">>)),
                            Member("url", JUrl(Padded(EmptyHref))) >>),
                    JObj(<< Member("headline", JText(<<" ">>)),
                            Member("url", JUrl(Rooted(<<"fr", "s4">>))) >>),
                    JObj(<< Member("@type", JName("Person")),
                            Member("name", JText(<<"w">>)),
                            Member("url", JUrl(Rooted(<<"fr", "s3">>))) >>),
                    JObj(<< Member("headline", JText(<<"&#1;">>)),
                            Member("url", JUrl(Rooted(<<"fr", "s5">>))) >>),
                    JObj(<< Member("@type", JName("article")),
                            Member("name", JText(<<"z">>)),
                            Member("url", JUrl(Rooted(<<"fr", "s3">>))) >>) >>)),
    \* a block that is no JSON
    ScriptElem(Soup, "application/json", [kind |-> "malformed", data |-> JNull]),
    \* a script of another type holding an article
    ScriptElem(Soup, "text/javascript",
               [kind |-> "json",
                data |-> JObj(<< Member("headline", JText(<<"y">>)),
                                 Member("url", JUrl(Rooted(<<"fr", "s6">>))) >>)]) }

ContainerElems == { Elem(Soup, "div", {"view-content"}, <<>>, NoHref) }

\* the nodes of an entry placed after `offset` nodes, attached to `attach`
Placed(entry, offset, attach) ==
  [i \in 1..Len(entry) |->
     [entry[i] EXCEPT !.parent = IF @ = 0 THEN attach ELSE @ + offset]]

RECURSIVE PlaceAll(_, _, _)
PlaceAll(entries, acc, attach) ==
  IF entries = <<>> THEN acc
  ELSE PlaceAll(Tail(entries), acc \o Placed(Head(entries), Len(acc), attach), attach)

\* the document: wrapper is <<>> or <<container element>>, script <<>> or <<script>>
Document(wrapper, entries, script) ==
  PlaceAll(entries, wrapper, Len(wrapper)) \o script

SeqsUpTo(S, n) == UNION {[1..k -> S] : k \in 0..n}

Documents ==
  { Document(w, es, sc) :
      w \in {<<>>} \cup {<<c>> : c \in ContainerElems},
      es \in SeqsUpTo(Entries, MaxEntries),
      sc \in {<<>>} \cup {<<s>> : s \in Scripts} }

\* the documents of the repeated calls: nothing, a card or a list item, with
\* and without the NewsArticle block
CallDocuments ==
  { Document(<<>>, es, sc) :
      es \in {<<>>, <<PlainCard>>, <<LinkItem>>},
      sc \in {<<>>, <<NewsScript>>} }

---------------------------------------------------------------------------
(* parse_articles as a state machine                                       *)
(* pc is the position in parse_articles; ran lists the strategies this     *)
(* call has run, each with what it found; log holds, per finished call,    *)
(* the markup and what the caller got.                                     *)

\* the check left out: the next strategy always runs
AfterStrategy_Always(found, fallback) == fallback

\* the fall-through left out: the first strategy decides
AfterStrategy_Never(found, fallback) == "finish"

\* "if not articles:" after a strategy: fall through to the next one or not
AfterStrategy(found, fallback) == IF found = <<>> THEN fallback ELSE "finish"

\* articles = _parse_from_containers(soup)
TryContainers ==
  /\ pc = "containers"
  /\ articles' = ParseFromContainers(html)
  /\ ran' = Append(ran, [strategy |-> "containers", found |-> articles'])
  /\ pc' = AfterStrategy(articles', "structured")
  /\ UNCHANGED <<html, outcome, log>>
  /\ UNCHANGED cvars

\* articles = _parse_from_structured_data(soup)
TryStructuredData ==
  /\ pc = "structured"
  /\ articles' = ParseFromStructuredData(html)
  /\ ran' = Append(ran, [strategy |-> "structured", found |-> articles'])
  /\ pc' = AfterStrategy(articles', "links")
  /\ UNCHANGED <<html, outcome, log>>
  /\ UNCHANGED cvars

\* articles = _parse_from_links(soup)
TryLinks ==
  /\ pc = "links"
  /\ articles' = ParseFromLinks(html)
  /\ ran' = Append(ran, [strategy |-> "links", found |-> articles'])
  /\ pc' = "finish"
  /\ UNCHANGED <<html, outcome, log>>
  /\ UNCHANGED cvars

\* "if articles: return articles"
Return ==
  /\ pc = "finish"
  /\ articles # <<>>
  /\ outcome' = "returned"
  /\ pc' = "done"
  /\ log' = Append(log, [markup |-> html, outcome |-> "returned", result |-> articles])
  /\ UNCHANGED <<html, articles, ran>>
  /\ UNCHANGED cvars

\* raise ArticleListParseError(message)
Raise ==
  /\ pc = "finish"
  /\ articles = <<>>
  /\ outcome' = "raised"
  /\ pc' = "done"
  /\ log' = Append(log, [markup |-> html, outcome |-> "raised", result |-> <<>>])
  /\ UNCHANGED <<html, articles, ran>>
  /\ UNCHANGED cvars

\* a further call of parse_articles, on any markup
Call(doc) ==
  /\ pc = "done"
  /\ Len(log) < MaxCalls
  /\ html' = doc
  /\ pc' = "containers"
  /\ articles' = <<>>
  /\ ran' = <<>>
  /\ outcome' = "pending"
  /\ UNCHANGED log
  /\ UNCHANGED cvars

\* collect_articles is not running
NoCollection ==
  /\ pages = 0
  /\ page_size = 0
  /\ index = 0
  /\ page_articles = <<>>
  /\ collected_urls = {}
  /\ fetched = <<>>

Start(docs) ==
  /\ html \in docs
  /\ pc = "containers"
  /\ articles = <<>>
  /\ ran = <<>>
  /\ outcome = "pending"
  /\ log = <<>>
  /\ NoCollection

Init == Start(Documents)

Next == TryContainers \/ TryStructuredData \/ TryLinks \/ Return \/ Raise

Spec == Init /\ [][Next]_vars

\* parse_articles called again and again
InitCalls == Start(CallDocuments)

NextCalls == Next \/ \E doc \in CallDocuments : Call(doc)

SpecCalls == InitCalls /\ [][NextCalls]_vars

---------------------------------------------------------------------------
(* html_export.collect_articles as a state machine                         *)
(* pc is the position in collect_articles, articles its list, index the    *)
(* loop variable; fetched lists the calls of get_listing_articles made so  *)
(* far, each with the page it gave back.                                   *)

MaxPages == 4

ExampleUrl(n) == [scheme |-> "https", netloc |-> "example.com", segs |-> <<n>>]

Titre1 == Article(<<"1">>, ExampleUrl("1"), <<"r", "1">>, SomeDate(<<"d", "1">>))

Titre2 == Article(<<"2">>, ExampleUrl("2"), <<"r", "2">>, SomeDate(<<"d", "2">>))

Titre3 == Article(<<"3">>, ExampleUrl("3"), <<"r", "3">>, SomeDate(<<"d", "3">>))

\* an article of the url of Titre2 with another title and no date
Titre2Bis == Article(<<"2", "b">>, ExampleUrl("2"), <<>>, NoDate)

\* the lists get_listing_articles may give back for a page
ListingPages ==
  { <<>>,
    <<Titre1, Titre2>>,
    <<Titre2, Titre3>>,
    <<Titre2Bis>>,
    <<Titre3, Titre2Bis, Titre3>>,
    <<Titre1>>,
    <<Titre2Bis, Titre1>> }

\* the arguments collect_articles is called with
PagesArguments == (0 - 1)..MaxPages

PageSizeArguments == {0 - 1, 0, 1, 20}

\* the url test left out: every article of the page is appended
MergePage_KeepAll(page, acc, urls) ==
  [articles |-> acc \o page,
   seen_urls |-> urls \cup {page[i].url : i \in 1..Len(page)}]

\* "for article in page_articles: if article.url in seen_urls: continue; ..."
RECURSIVE MergePage(_, _, _)
MergePage(page, acc, urls) ==
  IF page = <<>> THEN [articles |-> acc, seen_urls |-> urls]
  ELSE LET article == Head(page)
       IN IF article.url \in urls THEN MergePage(Tail(page), acc, urls)
          ELSE MergePage(Tail(page), Append(acc, article), urls \cup {article.url})

\* a page without a new article ends the loop as an empty page does
PageEndsCollection_NothingNew(page, urls) ==
  \A i \in 1..Len(page) : page[i].url \in urls

\* "if not page_articles": the page that ends the loop
PageEndsCollection(page, urls) == page = <<>>

\* the test of the first page left out
IsFirstPage_Never(i) == FALSE

\* "index == 0"
IsFirstPage(i) == i = 0

\* "if pages <= 0: raise ValueError", "if page_size <= 0: raise ValueError"
RaiseValueError ==
  /\ pc = "collect"
  /\ pages <= 0 \/ page_size <= 0
  /\ outcome' = "ValueError"
  /\ pc' = "done"
  /\ UNCHANGED <<html, articles, ran, log, cvars>>

\* "articles = []", "seen_urls = set()" and the entry of the loop
BeginCollection ==
  /\ pc = "collect"
  /\ ~(pages <= 0 \/ page_size <= 0)
  /\ articles' = <<>>
  /\ collected_urls' = {}
  /\ index' = 0
  /\ pc' = "request"
  /\ UNCHANGED <<html, ran, outcome, log, pages, page_size, page_articles, fetched>>

\* page_articles = get_listing_articles(index, page_size=page_size): the
\* collaborator gives back a list of articles, possibly empty
GetListingArticles(page) ==
  /\ pc = "request"
  /\ index < pages
  /\ page_articles' = page
  /\ fetched' = Append(fetched, [index |-> index, page_size |-> page_size,
                                 page |-> page])
  /\ pc' = "page"
  /\ UNCHANGED <<html, articles, ran, outcome, log, pages, page_size, index,
                 collected_urls>>

\* "if not page_articles and index == 0: raise ArticleListParseError"
RaiseEmptyFirstPage ==
  /\ pc = "page"
  /\ page_articles = <<>> /\ IsFirstPage(index)
  /\ outcome' = "ArticleListParseError"
  /\ pc' = "done"
  /\ UNCHANGED <<html, articles, ran, log, cvars>>

\* "if not page_articles: break", then "return articles"
StopAtEmptyPage ==
  /\ pc = "page"
  /\ ~(page_articles = <<>> /\ IsFirstPage(index))
  /\ PageEndsCollection(page_articles, collected_urls)
  /\ outcome' = "returned"
  /\ pc' = "done"
  /\ UNCHANGED <<html, articles, ran, log, cvars>>

\* the inner loop over the articles of the page, and the next index
AddPage ==
  /\ pc = "page"
  /\ ~(page_articles = <<>> /\ IsFirstPage(index))
  /\ ~PageEndsCollection(page_articles, collected_urls)
  /\ LET merged == MergePage(page_articles, articles, collected_urls)
     IN /\ articles' = merged.articles
        /\ collected_urls' = merged.seen_urls
  /\ index' = index + 1
  /\ pc' = "request"
  /\ UNCHANGED <<html, ran, outcome, log, pages, page_size, page_articles, fetched>>

\* range(pages) is used up: "return articles"
ReturnCollected ==
  /\ pc = "request"
  /\ ~(index < pages)
  /\ outcome' = "returned"
  /\ pc' = "done"
  /\ UNCHANGED <<html, articles, ran, log, cvars>>

InitCollect ==
  /\ pages \in PagesArguments
  /\ page_size \in PageSizeArguments
  /\ pc = "collect"
  /\ outcome = "pending"
  /\ articles = <<>>
  /\ collected_urls = {}
  /\ index = 0
  /\ page_articles = <<>>
  /\ fetched = <<>>
  /\ html = <<>>
  /\ ran = <<>>
  /\ log = <<>>

NextCollect ==
  \/ RaiseValueError
  \/ BeginCollection
  \/ \E page \in ListingPages : GetListingArticles(page)
  \/ RaiseEmptyFirstPage
  \/ StopAtEmptyPage
  \/ AddPage
  \/ ReturnCollected

SpecCollect == InitCollect /\ [][NextCollect]_vars

-------------------------------------------------------------------------------------------------------------------------------------------------
(* Properties                                                              *)

Returned == pc = "done" /\ outcome = "returned"

Raised == pc = "done" /\ outcome = "raised"

StrategyOrder == <<"containers", "structured", "links">>

RanNames == [i \in 1..Len(ran) |-> ran[i].strategy]

\* C1: the strategies run in the order container/card, structured data, link
\* fallback; a strategy runs only when every earlier one found nothing, and
\* the result is exactly what the last one run found, the first not empty.
C1_FirstNonEmptyStrategyWins ==
  /\ \E k \in 0..3 : RanNames = SubSeq(StrategyOrder, 1, k)
  /\ \A i \in 1..(Len(ran) - 1) : ran[i].found = <<>>
  /\ pc \in {"finish", "done"} =>
       /\ ran # <<>>
       /\ articles = ran[Len(ran)].found
       /\ Len(ran) < 3 => articles # <<>>
  /\ Returned => log[Len(log)].result = ran[Len(ran)].found

\* a call has returned the cards of a document that has a card layout and
\* structured data giving other articles
C1_Witness ==
  /\ Returned
  /\ articles = ParseFromContainers(html)
  /\ ParseFromStructuredData(html) # <<>>
  /\ \A i \in 1..Len(articles) :
       articles[i] \notin Range(ParseFromStructuredData(html))

\* C2: the call raises exactly when all three strategies have run and found
\* nothing; what is returned is never empty, and a failure hands over no article.
C2_RaisesIffNothingFound ==
  pc = "done" =>
    /\ outcome \in {"returned", "raised"}
    /\ outcome = "raised" <=> /\ RanNames = StrategyOrder
                              /\ \A i \in 1..3 : ran[i].found = <<>>
    /\ log[Len(log)].outcome = outcome
    /\ outcome = "returned" => log[Len(log)].result # <<>>
    /\ outcome = "raised" => log[Len(log)].result = <<>>

\* a call has raised on a document that has elements of all kinds
C2_Witness ==
  /\ Raised
  /\ \E n \in 1..Len(html) : html[n].tag = "script"
  /\ \E n \in 1..Len(html) : html[n].tag = "a"
  /\ ParseFromContainers(html) = <<>>
  /\ ParseFromStructuredData(html) = <<>>
  /\ ParseFromLinks(html) = <<>>

\* the container whose cards the container/card strategy returns
WinningContainer(doc) ==
  LET cs == Containers(doc)
  IN cs[CHOOSE i \in 1..Len(cs) :
          /\ ContainerCandidates(doc, cs[i]) # <<>>
          /\ \A j \in 1..(i - 1) : ContainerCandidates(doc, cs[j]) = <<>>]

\* the candidates of the strategy that produced the result
WinningCandidates ==
  CASE Len(ran) = 1 -> ContainerCandidates(html, WinningContainer(html))
    [] Len(ran) = 2 -> StructuredCandidates(html)
    [] OTHER -> LinkCandidates(html)

\* the candidates that no earlier candidate shares its url with
FirstOfEachUrl(cands) ==
  LET keep == SortedSeq({i \in 1..Len(cands) :
                           \A j \in 1..(i - 1) : cands[j].url # cands[i].url})
  IN [k \in 1..Len(keep) |-> cands[keep[k]]]

\* C3: no two returned articles have the same url; of the candidates of the
\* winning strategy that share a url the first discovered is the one kept, and
\* the kept ones stay in their order of discovery.
C3_UniqueUrlsFirstKept ==
  Returned =>
    /\ \A i, j \in 1..Len(articles) : i # j => articles[i].url # articles[j].url
    /\ articles = FirstOfEachUrl(WinningCandidates)

\* a later candidate of an already seen url was dropped from a result of two
C3_Witness ==
  /\ Returned
  /\ Len(articles) >= 2
  /\ Len(WinningCandidates) > Len(articles)

\* C4: every returned article, whichever strategy produced it, has a summary
\* that is empty or differs from its title.
C4_SummaryNeverTitle ==
  Returned =>
    \A i \in 1..Len(articles) :
      articles[i].summary = <<>> \/ articles[i].summary # articles[i].title

\* a card whose title anchor lacks a title text or an href
CardLacksField(doc, node) ==
  LET title_tag == CardTitleTag(doc, node)
  IN /\ title_tag # None
     /\ \/ GetText(doc, title_tag, <<>>) = <<>>
        \/ ~HrefTruthy(HrefStrip(GetHref(doc, title_tag)))

\* an anchor without a title text or an href
LinkLacksField(doc, link) ==
  GetText(doc, link, <<>>) = <<>> \/ ~HrefTruthy(HrefStrip(doc[link].href))

\* an object without a url or a title
JsonLacksField(data) ==
  LET url == Or(JGet(data, "url"), JGet(data, "@id"))
      title == Or(Or(Or(JGet(data, "headline"), JGet(data, "name")),
                     JGet(data, "title")), JGet(data, "text"))
  IN \/ ~IsUrlString(url) \/ ~HrefTruthy(HrefStrip(url.v))
     \/ ~IsTextString(title) \/ Strip(title.v) = <<>>

\* the objects of the structured-data blocks of a document
JsonPayloads(doc) ==
  Flatten([i \in 1..Len(ScriptNodes(doc)) |-> ScriptPayloads(doc[ScriptNodes(doc)[i]])])

\* C5: in the strategy that produced the outcome, a candidate whose title is
\* empty or whose href/url is empty or missing gives no article; the call does
\* not fail because of it and the other candidates are still extracted.
C5_CandidateLackingFieldDropped ==
  pc = "done" =>
    /\ Len(ran) = 1 =>
         \A node \in Range(IterArticleNodes(html, WinningContainer(html))) :
           CardLacksField(html, node) => ParseArticleCard(html, node) = <<>>
    /\ Len(ran) = 2 =>
         \A data \in Range(JsonPayloads(html)) :
           JsonLacksField(data) => ArticleFromJson(data) = <<>>
    /\ Len(ran) = 3 =>
         \A link \in Range(LinkNodes(html)) :
           LinkLacksField(html, link) => ParseArticleFromLink(html, link) = <<>>

\* a script element of a type looked for, whose JSON holds an object that
\* gives an article
HasValidBlock(doc) ==
  \E n \in 1..Len(doc) :
    /\ doc[n].tag = "script"
    /\ doc[n].stype \in {"application/ld+json", "application/json"}
    /\ doc[n].content.kind = "json"
    /\ \E data \in Range(IterJsonNodes(doc[n].content.data)) : ArticleFromJson(data) # <<>>

\* C6: when the container/card strategy finds nothing and the document embeds
\* a valid structured-data block, the call returns exactly the articles of the
\* structured data and the link fallback does not run.
C6_StructuredDataAlone ==
  pc = "done" /\ ran[1].found = <<>> /\ HasValidBlock(html) =>
    /\ Returned
    /\ RanNames = <<"containers", "structured">>
    /\ articles = FirstOfEachUrl(StructuredCandidates(html))

\* such a call has returned on a document that also has news-path anchors
C6_Witness ==
  /\ Returned
  /\ ran[1].found = <<>>
  /\ HasValidBlock(html)
  /\ ParseFromLinks(html) # <<>>
  /\ articles = ParseFromStructuredData(html)

\* C7: two calls on the same markup give the same outcome, the same articles
\* in the same order or a failure both times, whatever was parsed in between.
C7_SameMarkupSameOutcome ==
  \A i, j \in 1..Len(log) :
    log[i].markup = log[j].markup =>
      log[i].outcome = log[j].outcome /\ log[i].result = log[j].result

\* the first and third call were on one markup and returned, the call in
\* between was on another markup sharing a url with it
C7_Witness ==
  /\ Len(log) = 3
  /\ log[1].markup = log[3].markup
  /\ log[2].markup # log[1].markup
  /\ log[1].outcome = "returned"
  /\ \E a \in Range(log[1].result), b \in Range(log[2].result) : a.url = b.url

\* the hrefs and urls written in a document, stripped
WrittenHrefs(doc) ==
  {HrefStrip(doc[n].href) : n \in 1..Len(doc)}
  \cup UNION {{HrefStrip(data.members[k].val.v) :
                 k \in {x \in 1..Len(data.members) : IsUrlString(data.members[x].val)}} :
              data \in Range(JsonPayloads(doc))}

\* C8: every returned article has a non-empty title and an absolute url: an
\* href or url that is absolute is kept as written, any other is resolved
\* against the origin https://actus.ulb.be.
C8_TitleNonEmptyUrlAbsolute ==
  Returned =>
    \A i \in 1..Len(articles) :
      /\ articles[i].title # <<>>
      /\ articles[i].url.scheme # "" /\ articles[i].url.netloc # ""
      /\ \/ articles[i].url.scheme = BASE_URL.scheme /\ articles[i].url.netloc = BASE_URL.netloc
         \/ \E h \in WrittenHrefs(html) :
              h.scheme # "" /\ articles[i].url = [scheme |-> h.scheme, netloc |-> h.netloc,
                                                  segs |-> h.segs]

\* the texts next to an anchor: those of the elements that follow it under its
\* parent, up to the next anchor there
AdjacentTexts(doc, link) ==
  {GetText(doc, e, SP) :
     e \in {x \in (link + 1)..Len(doc) :
              /\ doc[x].parent = doc[link].parent
              /\ \A y \in (link + 1)..x : doc[y].parent = doc[link].parent => doc[y].tag # "a"}}
  \ {<<>>}

\* C9: a link-fallback result has one article per news-path anchor (with a
\* text, of a new url), and the summary of each is the text next to its own
\* anchor, however the anchors are placed under their parents.
C9_LinkSummaryIsOwnText ==
  Returned /\ Len(ran) = 3 =>
    /\ Len(articles) = Cardinality({Urljoin(BASE_URL, HrefStrip(html[l].href)) :
                                      l \in {x \in Range(LinkNodes(html)) :
                                               GetText(html, x, <<>>) # <<>>}})
    /\ \A l \in Range(LinkNodes(html)) :
         \A a \in Range(ParseArticleFromLink(html, l)) :
           a \in Range(articles) =>
             \/ a.summary \in AdjacentTexts(html, l)
             \/ a.summary = <<>> /\ AdjacentTexts(html, l) = {}

\* the card nodes the articles of a container/card result come from: for
\* each article the first card visited that parses to it
SourceCards ==
  LET nodes == IterArticleNodes(html, WinningContainer(html))
      parsed == [x \in 1..Len(nodes) |-> ParseArticleCard(html, nodes[x])]
  IN [i \in 1..Len(articles) |->
        nodes[CHOOSE x \in 1..Len(nodes) :
                /\ parsed[x] = <<articles[i]>>
                /\ \A y \in 1..(x - 1) : parsed[y] # <<articles[i]>>]]

\* the first card selector, in priority order, that an element matches
CardSelectorOf(node) ==
  CHOOSE k \in 1..Len(card_selectors) :
    /\ Matches(html, node, card_selectors[k])
    /\ \A j \in 1..(k - 1) : ~Matches(html, node, card_selectors[j])

\* C10 as stated: the articles of a container/card result are in the document
\* order of their card nodes, whatever card selectors the cards match.
C10_CardsInDocumentOrder ==
  Returned /\ Len(ran) = 1 =>
    LET source == SourceCards
    IN \A i, j \in 1..Len(articles) : i < j => source[i] < source[j]

\* C10 amended: the articles of a container/card result are in the order the
\* cards are visited: by card selector in priority order, and in document order
\* among the cards first matched by the same selector.
C10_CardsInSelectorThenDocumentOrder ==
  Returned /\ Len(ran) = 1 =>
    LET source == SourceCards
        selector == [i \in 1..Len(articles) |-> CardSelectorOf(source[i])]
    IN \A i, j \in 1..Len(articles) :
         i < j =>
           \/ selector[i] < selector[j]
           \/ selector[i] = selector[j] /\ source[i] < source[j]

\* a result of two cards, the first of which comes later in the document
C10_Witness ==
  /\ Returned
  /\ Len(ran) = 1
  /\ Len(articles) = 2
  /\ SourceCards[1] > SourceCards[2]

---------------------------------------------------------------------------
(* Properties of collect_articles                                          *)

\* the articles of the pages fetched so far, in page order
FetchedArticles == Flatten([i \in 1..Len(fetched) |-> fetched[i].page])

\* C11: what collect_articles returns is the concatenation, in page order, of
\* the articles of the pages it fetched, each url kept at its first
\* occurrence only: no two articles of one url, first-seen order preserved.
C11_PagesConcatenatedFirstUrlKept ==
  Returned =>
    /\ \A i, j \in 1..Len(articles) : i # j => articles[i].url # articles[j].url
    /\ articles = FirstOfEachUrl(FetchedArticles)

\* a collection over several pages has returned, having dropped from a later
\* page an article of a url already taken from an earlier page
C11_Witness ==
  /\ Returned
  /\ Len(fetched) >= 3
  /\ Titre2 \in Range(articles)
  /\ Titre2Bis \in Range(FetchedArticles)
  /\ Titre3 \in Range(articles)

\* C12: pages are requested in increasing index order from 0, at most `pages`
\* of them; no page is requested after an empty one, and the collection ends
\* before `pages` pages only at an empty page after page 0, never at a page of
\* duplicates.
C12_PagesInOrderUntilEmpty ==
  /\ \A i \in 1..Len(fetched) : fetched[i].index = i - 1
  /\ pages > 0 => Len(fetched) <= pages
  /\ \A i \in 1..(Len(fetched) - 1) : fetched[i].page # <<>>
  /\ Returned =>
       \/ Len(fetched) = pages /\ fetched[pages].page # <<>>
       \/ Len(fetched) >= 2 /\ fetched[Len(fetched)].page = <<>>

\* a collection went on after a page that brought only known urls, and ended
\* at an empty page before the last page allowed
C12_Witness ==
  /\ Returned
  /\ Len(fetched) < pages
  /\ \E i \in 2..(Len(fetched) - 1) :
       /\ fetched[i].page # <<>>
       /\ \A a \in Range(fetched[i].page) :
            \E j \in 1..(i - 1) : \E b \in Range(fetched[j].page) : a.url = b.url

---------------------------------------------------------------------------
(* Documents made of regions                                               *)
(* A region is an element, a container of some kind or a plain section,    *)
(* holding one card; a region follows the one before it or is      *)
(* nested in it.  The card of the i-th region is named after i.            *)

MaxRegions == 2

RegionNames == <<"1", "2", "3", "4">>

RegionElem(kind) ==
  CASE kind = "view-content" -> Elem(0, "div", {"view-content"}, <<>>, NoHref)
    [] kind = "layout__region" -> Elem(0, "div", {"layout__region"}, <<>>, NoHref)
    [] kind = "main" -> Elem(0, "main", {}, <<>>, NoHref)
    [] OTHER -> Elem(0, "section", {}, <<>>, NoHref)

\* a card that parses, of the title and url of its name
NamedCard(name) ==
  << Elem(0, "article", {}, <<>>, NoHref),
     Elem(1, "h2", {}, <<>>, NoHref),
     Elem(2, "a", {}, <<name>>, Rooted(<<"fr", "actus", name>>)) >>

\* a card that does not parse: its title anchor has no text
BlankCard ==
  << Elem(0, "article", {}, <<>>, NoHref),
     Elem(1, "h2", {}, <<>>, NoHref),
     Elem(2, "a", {}, <<" ">>, Rooted(<<"fr", "actus", "b">>)) >>

\* a region: its kind, whether its card parses, whether it is nested
Regions ==
  [kind : {"view-content", "layout__region", "main", "section"},
   content : {"blank", "card"}, nested : BOOLEAN]

\* the regions one after the other; prev is the element of the region before
RECURSIVE PlaceRegions(_, _, _, _)
PlaceRegions(regions, i, acc, prev) ==
  IF i > Len(regions) THEN acc
  ELSE LET r == regions[i]
           card == IF r.content = "card" THEN NamedCard(RegionNames[i]) ELSE BlankCard
           subtree == PlaceAll(<<card>>, <<RegionElem(r.kind)>>, 1)
           attach == IF r.nested THEN prev ELSE Soup
       IN PlaceRegions(regions, i + 1, acc \o Placed(subtree, Len(acc), attach),
                       Len(acc) + 1)

RegionDocuments ==
  { PlaceRegions(rs, 1, <<>>, Soup) :
      rs \in {s \in SeqsUpTo(Regions, MaxRegions) : s = <<>> \/ ~s[1].nested} }

SpecRegions == Start(RegionDocuments) /\ [][Next]_vars

---------------------------------------------------------------------------
(* Properties of the container/card strategy                               *)

IsCard(doc, n) == \E c \in 1..Len(card_selectors) : Matches(doc, n, card_selectors[c])

\* the card nodes that parse, below the elements a container selector matches
CardsUnderSelector(doc, k) ==
  LET matched == Range(Select(doc, Soup, container_selectors[k]))
  IN {n \in 1..Len(doc) :
        /\ \E e \in matched : IsBelow(doc, n, e)
        /\ IsCard(doc, n)
        /\ ParseArticleCard(doc, n) # <<>>}

\* the container selectors that yield a parsed card among their matches
YieldingSelectors(doc) ==
  {k \in 1..Len(container_selectors) : CardsUnderSelector(doc, k) # {}}

\* C14: when some container selector yields a parsed card among its matches,
\* the strategy's result is not empty and is made of cards found below the
\* matches of the first such selector in priority order; no card that lies
\* outside those matches gives an article of the result.
C14_FirstYieldingContainerSelectorWins ==
  LET yielding == YieldingSelectors(html)
      k == CHOOSE x \in yielding : \A y \in yielding : x <= y
      under == CardsUnderSelector(html, k)
      found == ran[1].found
  IN pc = "done" /\ yielding # {} =>
       /\ found # <<>>
       /\ \A i \in 1..Len(found) :
            /\ \E n \in under : ParseArticleCard(html, n) = <<found[i]>>
            /\ \A n \in 1..Len(html) :
                 IsCard(html, n) /\ ParseArticleCard(html, n) = <<found[i]>> =>
                   n \in under

\* a call has returned the card of a div.view-content that comes, in the
\* document, after a div.layout__region holding another card that parses
C14_Witness ==
  /\ Returned
  /\ Len(ran) = 1
  /\ \E e1, e2 \in 1..Len(html) :
       /\ e1 < e2 /\ ~IsBelow(html, e2, e1)
       /\ Matches(html, e1, container_selectors[2])
       /\ Matches(html, e2, container_selectors[1])
       /\ ContainerArticles(html, e1) # <<>>
       /\ articles = ContainerArticles(html, e2)

---------------------------------------------------------------------------
(* Properties of the field extractors                                      *)

\* the nodes the field extractors were started from, each with the article
\* it gave to the result: cards, or the parents of the anchors
ExtractedFrom ==
  IF Len(ran) = 1
  THEN {[node |-> n, article |-> a] :
          n \in Range(IterArticleNodes(html, WinningContainer(html))),
          a \in Range(articles)} \cap
       {x \in [node : 1..Len(html), article : Range(articles)] :
          ParseArticleCard(html, x.node) = <<x.article>>}
  ELSE {x \in [node : Range(LinkNodes(html)), article : Range(articles)] :
          ParseArticleFromLink(html, x.node) = <<x.article>>}

\* the listing entries of the document: the cards, or the elements holding
\* the anchors
ListingEntries ==
  IF Len(ran) = 1 THEN {n \in 1..Len(html) : IsCard(html, n)}
  ELSE {Parent(html, l) : l \in Range(LinkNodes(html))} \ {Soup}

\* the entry an extraction belongs to
EntryOf(x) == IF Len(ran) = 1 THEN x.node ELSE Parent(html, x.node)

\* element e lies inside an entry other than `entry` and not around it
InOtherEntry(e, entry) ==
  \E other \in ListingEntries :
    /\ other # entry /\ ~IsBelow(html, entry, other)
    /\ e = other \/ IsBelow(html, e, other)

\* the texts of the elements that are in no other entry
OwnTexts(entry, sep) ==
  {GetText(html, e, sep) : e \in {x \in 1..Len(html) : ~InOtherEntry(x, entry)}}

\* C15: the summary and the date of an article of the card or link strategy
\* are texts of elements that belong to its own card or entry, never texts
\* found only inside another card or entry.
C15_FieldsBelongToOwnEntry ==
  Returned /\ Len(ran) \in {1, 3} =>
    \A x \in ExtractedFrom :
      /\ x.article.summary = <<>> \/ x.article.summary \in OwnTexts(EntryOf(x), SP)
      /\ ~x.article.date.some \/ x.article.date.text \in OwnTexts(EntryOf(x), <<>>)

---------------------------------------------------------------------------
(* Documents with one nested entry                                         *)
(* One entry, a card or a list item with an anchor, lies below a chain of  *)
(* d plain div elements.  Up to two field elements are placed around it,   *)
(* each at a level: 0 for inside the entry, k for a child of the entry's   *)
(* k-th ancestor (the ancestor d + 1 is the BeautifulSoup object).         *)

MaxNesting == 6

NestedEntry(kind) ==
  CASE kind = "card" ->
         << Elem(0, "article", {}, <<>>, NoHref),
            Elem(1, "h2", {}, <<>>, NoHref),
            Elem(2, "a", {}, <<"a">>, A1) >>
    [] kind = "link" ->
         << Elem(0, "li", {}, <<>>, NoHref),
            Elem(1, "a", {}, <<"a">>, Rooted(<<"fr", "news", "a5">>)) >>
    [] OTHER ->
         << Elem(0, "li", {}, <<>>, NoHref),
            Elem(1, "a", {}, <<" ">>, Rooted(<<"fr", "news", "a5">>)) >>

\* the field elements: a paragraph, a paragraph repeating the title, a
\* .card__summary with and without text, a time, a .date
FieldElem(kind) ==
  CASE kind = "p" -> Elem(0, "p", {}, <<"s">>, NoHref)
    [] kind = "echo" -> Elem(0, "p", {}, <<"a">>, NoHref)
    [] kind = "summary" -> Elem(0, "div", {"card__summary"}, <<"h">>, NoHref)
    [] kind = "mute" -> Elem(0, "div", {"card__summary"}, <<" ">>, NoHref)
    [] kind = "time" -> Elem(0, "time", {}, <<"t">>, NoHref)
    [] OTHER -> Elem(0, "em", {"date"}, <<"u">>, NoHref)

\* where a field element comes in the document: by level, then by kind
FieldKey(p) ==
  p.level * 10 +
  (CASE p.kind = "mute" -> 1 [] p.kind = "summary" -> 2 [] p.kind = "echo" -> 3
     [] p.kind = "p" -> 4 [] p.kind = "time" -> 5 [] OTHER -> 6)

NestedDocument(d, entry, ps) ==
  LET wrappers == [i \in 1..d |-> Elem(i - 1, "div", {}, <<>>, NoHref)]
      keys == SortedSeq({FieldKey(p) : p \in ps})
      fields == [i \in 1..Len(keys) |->
                   LET p == CHOOSE q \in ps : FieldKey(q) = keys[i]
                   IN [FieldElem(p.kind) EXCEPT
                         !.parent = IF p.level = 0 THEN d + 1 ELSE d + 1 - p.level]]
  IN wrappers \o Placed(NestedEntry(entry), d, d) \o fields

\* the placements of one field element below d plain elements
Placements(d) ==
  [kind : {"p", "time"}, level : 0..(d + 1)]
  \cup [kind : {"echo", "summary", "mute", "date"},
        level : 0..(IF d = 0 THEN 1 ELSE 2)]

NestedDocuments ==
  {NestedDocument(0, "blank", {})} \cup
  UNION {{NestedDocument(d, entry, ps) :
            entry \in {"card", "link"},
            ps \in {{}} \cup {{x, y} : x, y \in Placements(d)}} :
         d \in 0..MaxNesting}

SpecNested == Start(NestedDocuments) /\ [][Next]_vars

---------------------------------------------------------------------------
(* Properties of the ancestor walk                                         *)

\* the number of parent hops from a node after which element e is in reach
Reach(n, e) ==
  CHOOSE k \in 0..Len(html) :
    /\ Up(html, n, k) # None /\ IsBelow(html, e, Up(html, n, k))
    /\ \A j \in 0..(k - 1) : ~IsBelow(html, e, Up(html, n, j))

\* the elements a summary selector matches that have a summary to give
SummaryElements(exclude) ==
  {e \in 1..Len(html) :
     /\ \E i \in 1..Len(summary_selectors) : Matches(html, e, summary_selectors[i])
     /\ GetText(html, e, SP) \notin {<<>>, exclude}}

\* the elements a date selector matches that have a text
DateElements ==
  {e \in 1..Len(html) :
     /\ \E i \in 1..Len(date_selectors) : Matches(html, e, date_selectors[i])
     /\ GetText(html, e, <<>>) # <<>>}

\* C16: the fields of an article come from elements in reach of its start
\* node within 5 parent hops: a text in reach only from the 6th ancestor or
\* above is never returned, and with nothing usable within 5 hops (or before
\* the root is passed) the summary is empty and there is no date.
C16_WalkWithinFiveAncestors ==
  Returned /\ Len(ran) \in {1, 3} =>
    \A x \in ExtractedFrom :
      LET n == EntryOf(x)
          near(S) == {e \in S : Reach(n, e) <= 5}
      IN /\ x.article.summary # <<>> =>
              \E e \in near(1..Len(html)) : GetText(html, e, SP) = x.article.summary
         /\ x.article.date.some =>
              \E e \in near(1..Len(html)) : GetText(html, e, <<>>) = x.article.date.text
         /\ near(SummaryElements(x.article.title)) = {} => x.article.summary = <<>>
         /\ near(DateElements) = {} => ~x.article.date.some

\* an article came back without a summary from a document whose only
\* paragraph is in reach from the 6th ancestor, with the date of a time
\* element in reach from the 5th
C16_Witness ==
  /\ Returned
  /\ \E x \in ExtractedFrom :
       /\ x.article.summary = <<>>
       /\ \E e \in SummaryElements(x.article.title) : Reach(EntryOf(x), e) = 6
       /\ x.article.date.some
       /\ \E e \in DateElements : Reach(EntryOf(x), e) = 5

\* does selector i give a usable summary k hops above the node
GivesSummary(n, k, i, exclude) ==
  /\ Up(html, n, k) # None
  /\ LET tag == SelectOne(html, Up(html, n, k), summary_selectors[i])
     IN tag # None /\ GetText(html, tag, SP) \notin {<<>>, exclude}

\* does selector i give a date k hops above the node
GivesDate(n, k, i) ==
  /\ Up(html, n, k) # None
  /\ LET tag == SelectOne(html, Up(html, n, k), date_selectors[i])
     IN tag # None /\ GetText(html, tag, <<>>) # <<>>

\* C17: the field returned is the one given by the nearest level at which
\* some selector gives a usable text and, at that level, by the first such
\* selector in priority order; a selector gives the text of its first match.
C17_NearestLevelThenSelectorPriority ==
  Returned /\ Len(ran) \in {1, 3} =>
    \A x \in ExtractedFrom :
      LET n == EntryOf(x)
          t == x.article.title
      IN /\ \A k \in 0..5, i \in 1..Len(summary_selectors) :
              /\ GivesSummary(n, k, i, t)
              /\ \A j \in 1..(i - 1) : ~GivesSummary(n, k, j, t)
              /\ \A l \in 0..(k - 1), j \in 1..Len(summary_selectors) :
                   ~GivesSummary(n, l, j, t)
              => x.article.summary =
                   GetText(html, SelectOne(html, Up(html, n, k), summary_selectors[i]), SP)
         /\ \A k \in 0..5, i \in 1..Len(date_selectors) :
              /\ GivesDate(n, k, i)
              /\ \A j \in 1..(i - 1) : ~GivesDate(n, k, j)
              /\ \A l \in 0..(k - 1), j \in 1..Len(date_selectors) : ~GivesDate(n, l, j)
              => x.article.date =
                   SomeDate(GetText(html, SelectOne(html, Up(html, n, k),
                                                    date_selectors[i]), <<>>))

\* the paragraph next to the entry, of the last selector, was preferred to a
\* .card__summary found one level higher
C17_Witness ==
  /\ Returned
  /\ \E x \in ExtractedFrom :
       LET n == EntryOf(x)
       IN /\ x.article.summary = <<"s">>
          /\ GivesSummary(n, 1, Len(summary_selectors), x.article.title)
          /\ ~GivesSummary(n, 1, 2, x.article.title)
          /\ GivesSummary(n, 2, 2, x.article.title)

---------------------------------------------------------------------------
(* Documents made of script blocks                                         *)

MaxScripts == 3

\* a block holding one object with a headline and the url /fr/<name>
TypedBlock(name, typing) ==
  LdJson(JObj(typing \o << Member("headline", JText(<<name>>)),
                           Member("url", JUrl(Rooted(<<"fr", name>>))) >>))

ScriptBlocks ==
  { NewsScript,
    TypedBlock("1", <<>>),
    TypedBlock("2", <<Member("@type", JName("Person"))>>),
    TypedBlock("3", <<Member("type", JList(<<JNull, JName("Person"), JName("ListItem")>>))>>),
    TypedBlock("4", <<Member("@type", JName("")), Member("type", JName("Person"))>>),
    TypedBlock("5", <<Member("@type", JList(<<JName("Person")>>)),
                      Member("type", JName("article"))>>),
    \* a block that is no JSON, and a block without text
    ScriptElem(Soup, "application/json", [kind |-> "malformed", data |-> JNull]),
    ScriptElem(Soup, "application/ld+json", [kind |-> "empty", data |-> JNull]) }

ScriptDocuments == SeqsUpTo(ScriptBlocks, MaxScripts)

SpecScripts == Start(ScriptDocuments) /\ [][Next]_vars

---------------------------------------------------------------------------
(* Properties of the structured-data strategy                              *)

\* what the structured-data strategy found in this call
StructuredFound == ran[2].found

\* the type names an object declares: the strings of the value under
\* "@type", or under "type" when "@type" is missing or empty
DeclaredNames(data) ==
  LET at == JGet(data, "@type")
      declared == IF Truthy(at) THEN at ELSE JGet(data, "type")
  IN IF declared.t = "str" THEN {declared.v}
     ELSE IF declared.t = "list"
     THEN {declared.items[i].v :
             i \in {j \in 1..Len(declared.items) : declared.items[j].t = "str"}}
     ELSE {}

\* the spellings of the four allowed types, whatever the case of the letters
AllowedSpellings ==
  {"NewsArticle", "newsarticle", "Article", "article", "CreativeWork",
   "creativework", "ListItem", "listitem"}

\* C18: every article of a structured-data result is given by an object that
\* declares no type or at least one allowed type; an object whose declared
\* types are all outside the allow-set gives no article.
C18_OnlyAllowedTypesAccepted ==
  pc = "done" /\ Len(ran) >= 2 =>
    /\ \A data \in Range(JsonPayloads(html)) :
         DeclaredNames(data) # {} /\ DeclaredNames(data) \cap AllowedSpellings = {}
           => ArticleFromJson(data) = <<>>
    /\ \A i \in 1..Len(StructuredFound) :
         \E data \in Range(JsonPayloads(html)) :
           /\ DeclaredNames(data) = {} \/ DeclaredNames(data) \cap AllowedSpellings # {}
           /\ ArticleFromJson(data) = <<StructuredFound[i]>>

\* a structured-data result holds the object typed ["Person", "ListItem"]
\* and not the object typed Person of the same document
C18_Witness ==
  /\ Returned /\ Len(ran) = 2
  /\ \E i \in 1..Len(articles) : articles[i].title = <<"3">>
  /\ \E data \in Range(JsonPayloads(html)) :
       /\ DeclaredNames(data) = {"Person"}
       /\ JGet(data, "headline") = JText(<<"2">>)
  /\ \A i \in 1..Len(articles) : articles[i].title # <<"2">>

\* the script blocks looked at, in document order
Blocks == SelectSeq(Elements(html),
                    LAMBDA n : /\ html[n].tag = "script"
                               /\ html[n].stype \in {"application/ld+json",
                                                     "application/json"})

\* the articles of the objects of one readable block
BlockArticles(n) ==
  LET objects == IterJsonNodes(html[n].content.data)
  IN Flatten([i \in 1..Len(objects) |-> ArticleFromJson(objects[i])])

\* C19: a block that is empty or no JSON gives no article and does not end
\* the strategy: the result is that of the readable blocks, before and after
\* it, taken in block order.
C19_UnreadableBlockSkipped ==
  pc = "done" /\ Len(ran) >= 2 =>
    StructuredFound =
      FirstOfEachUrl(Flatten([i \in 1..Len(Blocks) |->
                                IF html[Blocks[i]].content.kind = "json"
                                THEN BlockArticles(Blocks[i]) ELSE <<>>]))

\* a result of two articles from the blocks before and after a block that
\* is no JSON
C19_Witness ==
  /\ Returned /\ Len(ran) = 2
  /\ Len(Blocks) = 3
  /\ html[Blocks[2]].content.kind = "malformed"
  /\ Len(articles) = 2
  /\ <<articles[1]>> = BlockArticles(Blocks[1])
  /\ <<articles[2]>> = BlockArticles(Blocks[3])

---------------------------------------------------------------------------
(* Documents of one card holding anchors                                   *)

MaxAnchors == 3

Anchor(text, href) == <<Elem(0, "a", {}, text, href)>>

CardAnchors ==
  { Anchor(<<"a", "b">>, Rooted(<<"fr", "actus", "a1">>)),
    Anchor(<<"c", "d">>, Rooted(<<"fr", "actualites", "a2">>)),
    \* a text of one character once stripped
    Anchor(<<" ", "e", " ">>, Rooted(<<"fr", "actus", "a3">>)),
    \* longer texts on hrefs that hold neither "/actus/" nor "/actualites/"
    Anchor(<<"f", "g", "h">>, Rooted(<<"fr", "news", "a5">>)),
    Anchor(<<"i", "j", "k", "l">>, Rooted(<<"fr", "actus">>)),
    \* no text
    Anchor(<<" ">>, Rooted(<<"fr", "actus", "a4">>)),
    \* a literal reference: five characters before html.unescape
    Anchor(<<"&amp;">>, Rooted(<<"fr", "actualites", "a7">>)),
    \* an anchor the tight title selectors match
    << Elem(0, "h3", {}, <<>>, NoHref),
       Elem(1, "a", {}, <<"m">>, Rooted(<<"fr", "agenda", "a6">>)) >> }

AnchorDocuments ==
  { PlaceAll(anchors, <<Elem(Soup, "article", {}, <<>>, NoHref)>>, 1) :
      anchors \in SeqsUpTo(CardAnchors, MaxAnchors) }

SpecAnchors == Start(AnchorDocuments) /\ [][Next]_vars

---------------------------------------------------------------------------
(* Properties of the title anchor                                          *)

\* the anchors of the card (the first element of the document)
AnchorsOfCard == {n \in 2..Len(html) : html[n].tag = "a"}

\* the anchors a tight title selector matches
TightAnchors ==
  {n \in AnchorsOfCard : \E i \in 1..Len(title_selectors) : Matches(html, n, title_selectors[i])}

\* the anchors whose href holds "/actus/" or "/actualites/"
ArticlePathAnchors ==
  {n \in AnchorsOfCard :
     \/ HrefContains(html[n].href, FragDir("actus"))
     \/ HrefContains(html[n].href, FragDir("actualites"))}

StrippedLen(n) == StrLen(GetText(html, n, <<>>))

\* C20: without a tight title anchor the card's title anchor is the
\* article-path anchor of the longest stripped text, the first in document
\* order among the longest; the card gives its title and url.  With no
\* article-path anchor, or an empty text on the chosen one, the card gives no
\* article and the call goes on with the next strategy.
C20_LongestArticlePathAnchor ==
  pc = "done" /\ TightAnchors = {} =>
    IF \A n \in ArticlePathAnchors : StrippedLen(n) = 0
    THEN ran[1].found = <<>> /\ Len(ran) >= 2
    ELSE LET chosen == CHOOSE n \in ArticlePathAnchors :
                         \A o \in ArticlePathAnchors :
                           \/ StrippedLen(o) < StrippedLen(n)
                           \/ StrippedLen(o) = StrippedLen(n) /\ n <= o
         IN /\ Len(ran[1].found) = 1
            /\ ran[1].found[1].title = Unescape(GetText(html, chosen, <<>>))
            /\ ran[1].found[1].url = Urljoin(BASE_URL, html[chosen].href)

\* the card gave the first of two article-path anchors of two characters,
\* next to a longer anchor on another path
C20_Witness ==
  /\ Returned /\ Len(ran) = 1
  /\ TightAnchors = {}
  /\ \E n, o \in ArticlePathAnchors :
       /\ n < o /\ StrippedLen(n) = 2 /\ StrippedLen(o) = 2
       /\ articles[1].url = Urljoin(BASE_URL, html[n].href)
  /\ \E n \in AnchorsOfCard \ ArticlePathAnchors : StrippedLen(n) > 2

---------------------------------------------------------------------------
(* Properties of the visit of the container elements                       *)

\* the elements a container selector matches
ContainerElements ==
  {e \in 1..Len(html) :
     \E k \in 1..Len(container_selectors) : Matches(html, e, container_selectors[k])}

\* the first container selector, in priority order, that matches an element
SelectorRank(e) ==
  CHOOSE k \in 1..Len(container_selectors) :
    /\ Matches(html, e, container_selectors[k])
    /\ \A j \in 1..(k - 1) : ~Matches(html, e, container_selectors[j])

\* container element a is visited before container element b
VisitedBefore(a, b) ==
  \/ SelectorRank(a) < SelectorRank(b)
  \/ SelectorRank(a) = SelectorRank(b) /\ a < b

\* the cards that parse, in the whole document
ParsedCards == {n \in 1..Len(html) : IsCard(html, n) /\ ParseArticleCard(html, n) # <<>>}

\* the container elements with a card that parses below them
YieldingElements ==
  LET cards == ParsedCards
  IN {e \in ContainerElements : \E n \in cards : IsBelow(html, n, e)}

\* the first yielding element in the order of the visit
FirstYielding ==
  LET yielding == YieldingElements
  IN CHOOSE e \in yielding : \A o \in yielding \ {e} : VisitedBefore(e, o)

\* the result of the container/card strategy is made of all the cards below
\* the first yielding element, and of no other
FromFirstYieldingOnly(found) ==
  LET first == FirstYielding
      below == {n \in ParsedCards : IsBelow(html, n, first)}
      parsed == {ParseArticleCard(html, n)[1] : n \in below}
  IN /\ found # <<>>
     /\ Range(found) = parsed

\* C21 as stated: the result comes from the first yielding element of the
\* visit (selector priority, then document order), and the cards of every
\* container element visited later are absent from it.
C21_LaterContainersAbsent ==
  pc = "done" /\ YieldingElements # {} =>
    /\ FromFirstYieldingOnly(ran[1].found)
    /\ \A o \in ContainerElements :
         VisitedBefore(FirstYielding, o) =>
           \A n \in ParsedCards :
             IsBelow(html, n, o) => ParseArticleCard(html, n)[1] \notin Range(ran[1].found)

\* C21 amended: the result comes from the first yielding element of the
\* visit, and every card that lies outside that element, in a container
\* visited later or elsewhere, is absent from it.
C21_CardsOutsideFirstYieldingAbsent ==
  pc = "done" /\ YieldingElements # {} =>
    LET first == FirstYielding
        found == Range(ran[1].found)
        outside == {n \in ParsedCards : ~IsBelow(html, n, first)}
    IN /\ FromFirstYieldingOnly(ran[1].found)
       /\ \A n \in outside : ParseArticleCard(html, n)[1] \notin found

\* two elements of one container selector side by side, each with a card
\* that parses: the call returned the card of the first only
C21_Witness ==
  /\ Returned /\ Len(ran) = 1
  /\ \E a, b \in YieldingElements :
       /\ a < b /\ ~IsBelow(html, b, a)
       /\ SelectorRank(a) = SelectorRank(b)
       /\ a = FirstYielding
       /\ Len(articles) = 1
       /\ \E n \in ParsedCards : IsBelow(html, n, a) /\ ParseArticleCard(html, n) = articles

\* the cards that parse and lie below no container element
CardsOutsideContainers ==
  {n \in ParsedCards : \A e \in ContainerElements : ~IsBelow(html, n, e)}

\* C22: the cards of the whole document are taken only when no element
\* matches a container selector; with container elements, no card outside
\* them is taken, and when none of them yields an article the strategy's
\* result is empty and the structured-data strategy runs next.
C22_WholeDocumentOnlyWithoutContainers ==
  pc = "done" =>
    LET elements == ContainerElements
        cards == ParsedCards
        found == Range(ran[1].found)
        outside == {n \in cards : \A e \in elements : ~IsBelow(html, n, e)}
        yielding == \E n \in cards : \E e \in elements : IsBelow(html, n, e)
    IN /\ elements = {} =>
            found = {ParseArticleCard(html, n)[1] : n \in cards}
       /\ elements # {} =>
            \A n \in outside : ParseArticleCard(html, n)[1] \notin found
       /\ elements # {} /\ ~yielding =>
            /\ ran[1].found = <<>>
            /\ Len(ran) >= 2 /\ ran[2].strategy = "structured"

\* a card that parses lay outside the only containers, which gave nothing:
\* the strategy found nothing, structured data was tried, and the link
\* fallback returned the anchor of that card
C22_Witness ==
  /\ Returned /\ Len(ran) = 3
  /\ ContainerElements # {}
  /\ YieldingElements = {}
  /\ CardsOutsideContainers # {}
  /\ ran[1].found = <<>>
  /\ ran[2].strategy = "structured"

====
